---------------------------- MODULE Spec2Model ----------------------------
(***************************************************************************)
(* Model of the race prediction engine of the F1 prediction dashboard:     *)
(* api/app/services/prediction_service.py (PredictionService) together     *)
(* with the parts of the providers it consumes.                            *)
(*                                                                         *)
(* Numbers.  Python floats are modelled as exact fixed-point rationals.    *)
(*   - a feature value is an integer in the unit of its column             *)
(*     (FeatureUnit: tenths of a second, tenths of probability, tenths of  *)
(*     a degree, 1/558 of team score, thousandths of a second, tenths of   *)
(*     a position), or the marker NAN (float('nan')), or NONE (None);      *)
(*   - a time is a record [nan, w, f]: w whole seconds plus f/FRAC         *)
(*     seconds, 0 <= f < FRAC, or the NaN time.  FRAC is the common        *)
(*     denominator of every quantity the engine adds to a time.            *)
(* Floating-point rounding is not modelled.                                *)
(***************************************************************************)
EXTENDS Integers, Sequences, FiniteSets, TLC

(***************************************************************************)
(* Bounds of the model.                                                    *)
(***************************************************************************)
\* number of roster competitors modelled (a prefix of driver_to_team)
NRoster == 2
\* number of estimator objects train_model may create in one behaviour
MaxArt == 2
\* largest number of ranked competitors the ranking formulas are applied to
MaxRanks == 25

(***************************************************************************)
(* Fixed-point numbers.                                                    *)
(***************************************************************************)
NAN == -99999999
NONE == -88888888

FRAC == 558000000

Mk(w, f) == [nan |-> FALSE, w |-> w, f |-> f]

NaNTime == [nan |-> TRUE, w |-> 0, f |-> 0]

Norm(w, f) == Mk(w + (f \div FRAC), f % FRAC)

\* the rational m/den as a time; den divides FRAC
Scaled(m, den) == Mk(m \div den, (m % den) * (FRAC \div den))

\* float addition: NaN is absorbing
FAdd(a, b) == IF a.nan \/ b.nan THEN NaNTime ELSE Norm(a.w + b.w, a.f + b.f)

\* float comparisons: every comparison with NaN is false
FLt(a, b) == /\ ~a.nan
             /\ ~b.nan
             /\ (a.w < b.w \/ (a.w = b.w /\ a.f < b.f))

FLe(a, b) == /\ ~a.nan
             /\ ~b.nan
             /\ (a.w < b.w \/ (a.w = b.w /\ a.f <= b.f))

\* Python truthiness of a float-or-None: None and 0.0 are falsy, NaN is truthy
Truthy(x) == x # NONE /\ x # 0

\* Python `a or b`
PyOr(a, b) == IF Truthy(a) THEN a ELSE b

Min2(a, b) == IF a < b THEN a ELSE b

Max2(a, b) == IF a > b THEN a ELSE b

(***************************************************************************)
(* PredictionService.__init__: the fixed tables.                           *)
(***************************************************************************)
feature_names ==
  << "qualifying_time", "rain_probability", "temperature",
     "team_performance_score", "clean_air_pace", "average_position_change" >>

\* denominator of the integer unit each column is stored in
FeatureUnit == << 10, 10, 10, 558, 1000, 10 >>

Col(name) == CHOOSE i \in 1..Len(feature_names) : feature_names[i] = name

\* keys of driver_to_team in insertion order
AllDrivers ==
  << "VER", "NOR", "PIA", "LEC", "RUS", "HAM", "GAS", "ALO", "TSU", "SAI",
     "HUL", "OCO", "STR", "ALB", "COL", "MAG", "BOT", "ZHO", "RIC" >>

driver_to_team ==
  [ VER |-> "Red Bull", NOR |-> "McLaren", PIA |-> "McLaren",
    LEC |-> "Ferrari", RUS |-> "Mercedes", HAM |-> "Mercedes",
    GAS |-> "Alpine", ALO |-> "Aston Martin", TSU |-> "Racing Bulls",
    SAI |-> "Ferrari", HUL |-> "Kick Sauber", OCO |-> "Alpine",
    STR |-> "Aston Martin", ALB |-> "Williams", COL |-> "Williams",
    MAG |-> "Haas", BOT |-> "Kick Sauber", ZHO |-> "Kick Sauber",
    RIC |-> "Racing Bulls" ]

\* the competitors of the model: the first NRoster keys of driver_to_team
Roster == SubSeq(AllDrivers, 1, NRoster)

RosterSet == { Roster[i] : i \in 1..Len(Roster) }

\* points share n/279, stored as 2*n over 558
team_performance_scores ==
  [ t \in { "McLaren", "Mercedes", "Red Bull", "Williams", "Ferrari", "Haas",
            "Aston Martin", "Kick Sauber", "Racing Bulls", "Alpine" } |->
      CASE t = "McLaren" -> 2 * 279
        [] t = "Mercedes" -> 2 * 147
        [] t = "Red Bull" -> 2 * 131
        [] t = "Williams" -> 2 * 51
        [] t = "Ferrari" -> 2 * 114
        [] t = "Haas" -> 2 * 20
        [] t = "Aston Martin" -> 2 * 14
        [] t = "Kick Sauber" -> 2 * 6
        [] t = "Racing Bulls" -> 2 * 10
        [] t = "Alpine" -> 2 * 7 ]

\* tenths of a position, by circuit and driver
average_position_change ==
  [ c \in { "Monaco" } |->
      [ VER |-> -10, NOR |-> 10, PIA |-> 2, RUS |-> 5, SAI |-> -3,
        ALB |-> 8, LEC |-> -15, OCO |-> -2, HAM |-> 3, STR |-> 11,
        GAS |-> -4, ALO |-> -6, HUL |-> 0 ] ]

\* a fixed element of S, standing for a draw that is not used
Canon(S) == CHOOSE x \in S : TRUE

\* variant: a missing key gives None
Get_NoDefault(d, k, dflt) == IF k \in DOMAIN d THEN d[k] ELSE NONE

\* dict.get(key, default)
Get(d, k, dflt) == IF k \in DOMAIN d THEN d[k] ELSE dflt


(***************************************************************************)
(* Estimates used when a provider has no value for a competitor.  The      *)
(* np.random.normal draw is the argument jitter.                           *)
(***************************************************************************)
\* tenths of a second
base_times ==
  [ t \in { "Red Bull", "McLaren", "Ferrari", "Mercedes", "Aston Martin",
            "Alpine", "Williams", "Racing Bulls", "Haas", "Kick Sauber" } |->
      CASE t = "Red Bull" -> 705
        [] t = "McLaren" -> 708
        [] t = "Ferrari" -> 710
        [] t = "Mercedes" -> 712
        [] t = "Aston Martin" -> 715
        [] t = "Alpine" -> 718
        [] t = "Williams" -> 720
        [] t = "Racing Bulls" -> 722
        [] t = "Haas" -> 724
        [] t = "Kick Sauber" -> 726 ]

driver_adjustments ==
  [ VER |-> -3, NOR |-> -1, LEC |-> -2, HAM |-> -1, RUS |-> 0,
    PIA |-> 1, ALO |-> -1, SAI |-> 0, STR |-> 2, GAS |-> 1 ]

_estimate_qualifying_time(driver, team, jitter) ==
  Get(base_times, team, 725) + Get(driver_adjustments, driver, 0) + jitter

\* thousandths of a second
base_pace ==
  [ t \in { "Red Bull", "McLaren", "Ferrari", "Mercedes", "Aston Martin",
            "Alpine", "Williams", "Racing Bulls", "Haas", "Kick Sauber" } |->
      CASE t = "Red Bull" -> 93500
        [] t = "McLaren" -> 93700
        [] t = "Ferrari" -> 94000
        [] t = "Mercedes" -> 94200
        [] t = "Aston Martin" -> 95000
        [] t = "Alpine" -> 95500
        [] t = "Williams" -> 95800
        [] t = "Racing Bulls" -> 96000
        [] t = "Haas" -> 96200
        [] t = "Kick Sauber" -> 96500 ]

_estimate_clean_air_pace(driver, team, jitter) ==
  Get(base_pace, team, 96000) + jitter

\* the fixed table _get_clean_air_pace_data falls back to (thousandths)
MockPace ==
  [ VER |-> 93191, HAM |-> 94021, LEC |-> 93419, NOR |-> 93429,
    ALO |-> 94784, PIA |-> 93232, RUS |-> 93833, SAI |-> 94497,
    STR |-> 95318, HUL |-> 95345, OCO |-> 95682, GAS |-> 95900,
    TSU |-> 96100, ALB |-> 95800, MAG |-> 96200, BOT |-> 96500,
    ZHO |-> 96800, RIC |-> 95700, COL |-> 96000 ]

(***************************************************************************)
(* Providers.  An outcome of the race-data provider is a record            *)
(* [ok, data]: ok = FALSE is an exception or None, data is the mapping or  *)
(* the frame it returned.                                                  *)
(***************************************************************************)
\* variant: a mapping that does not cover the roster is discarded
_get_clean_air_pace_data_AllOrNothing(outcome) ==
  IF outcome.ok /\ RosterSet \subseteq DOMAIN outcome.data
    THEN outcome.data ELSE MockPace

\* pace_data is returned when it is a non-empty dict, else the fixed table
_get_clean_air_pace_data(outcome) ==
  IF outcome.ok /\ DOMAIN outcome.data # {} THEN outcome.data ELSE MockPace

\* the time of one row of the qualifying frame: row["Q3"] or row["Q2"] or row["Q1"]
RowTime(row) == PyOr(PyOr(row.Q3, row.Q2), row.Q1)

\* frame: driver -> [Q1, Q2, Q3]; jitter: driver -> draw of the estimate
_get_qualifying_predictions(outcome, jitter) ==
  IF outcome.ok /\ DOMAIN outcome.data # {}
    THEN [ d \in { x \in DOMAIN outcome.data : Truthy(RowTime(outcome.data[x])) }
             |-> RowTime(outcome.data[d]) ]
    ELSE [ d \in RosterSet |->
             _estimate_qualifying_time(d, driver_to_team[d], jitter[d]) ]

\* variant: a default snapshot without rain
DefaultWeather_Dry ==
  [ present |-> TRUE, temperature_c |-> 200, precipitation_prob |-> 0 ]

\* the snapshot predict_race uses when the forecast is None
DefaultWeather ==
  [ present |-> TRUE, temperature_c |-> 200, precipitation_prob |-> 1 ]

NoWeather ==
  [ present |-> FALSE, temperature_c |-> 0, precipitation_prob |-> 0 ]

(***************************************************************************)
(* Feature building.                                                       *)
(***************************************************************************)
_build_driver_features(driver, team, event, weather_data, clean_air_pace, qualifying_data, qjitter, pjitter) ==
  LET quali_time == Get(qualifying_data, driver,
                        _estimate_qualifying_time(driver, team, qjitter))
      team_score == Get(team_performance_scores, team, 279)
      pace == Get(clean_air_pace, driver,
                  _estimate_clean_air_pace(driver, team, pjitter))
      position_change == Get(Get(average_position_change, event,
                                 [ x \in {} |-> 0 ]), driver, 0)
  IN  << quali_time, weather_data.precipitation_prob,
         weather_data.temperature_c, team_score, pace, position_change >>

(***************************************************************************)
(* Estimator objects.  An imputer or a model is a record [art, fitted]:    *)
(* art identifies the train_model call (the artifact) that created the     *)
(* object, 0 for the objects of _create_default_model, 1 for the artifact  *)
(* found on disk at construction; fitted tells whether fit() completed on  *)
(* it.  The library raises NotFittedError on transform/predict of an       *)
(* object that is not fitted.                                              *)
(***************************************************************************)
NoneObj == [art |-> -1, fitted |-> FALSE]

Unfitted(a) == [art |-> a, fitted |-> FALSE]

Fitted(a) == [art |-> a, fitted |-> TRUE]

\* SimpleImputer(strategy="median").statistics_ after fit: one median per
\* column, a function of the data the artifact was trained on
ImputerStatistics(imp) == << 706 + imp.art, 1, 200, 262, 94000, 0 >>

\* SimpleImputer.transform on one row: a missing value becomes the median
Transform(imp, row) ==
  [ i \in 1..Len(row) |-> IF row[i] = NAN THEN ImputerStatistics(imp)[i]
                                          ELSE row[i] ]

\* GradientBoostingRegressor.predict on one imputed row: piecewise constant
\* in the features, a function of the artifact
ModelPredict(mdl, row) ==
  IF row[1] <= 706 THEN Mk(88 + mdl.art, 0) ELSE Mk(95 + mdl.art, 0)

\* model.feature_importances_ (hundredths), one per training column
FeatureImportances(mdl) == << 40, 5, 5, 20, 25, 5 >>

\* dict(zip(names, values))
ZipDict(names, values) ==
  [ k \in { names[i] : i \in 1..Min2(Len(names), Len(values)) } |->
      values[CHOOSE i \in 1..Min2(Len(names), Len(values)) : names[i] = k] ]

(***************************************************************************)
(* Raw times without a model.                                              *)
(***************************************************************************)
\* one row of _create_mock_predictions
MockPrediction(row) ==
  LET q == row[Col("qualifying_time")]
      team_factor == row[Col("team_performance_score")]
      rain == row[Col("rain_probability")]
  IN  IF q = NAN
        THEN NaNTime
        ELSE Scaled((q + 20 * 10) * (2 * 558 - team_factor) * (100 + rain),
                    10 * 558 * 100)

_create_mock_predictions(features_df) ==
  [ i \in 1..Len(features_df) |-> MockPrediction(features_df[i]) ]

(***************************************************************************)
(* Weight overlay.                                                         *)
(***************************************************************************)
\* value, mean and the result are in the unit of the column; std is a
\* pure number
_calculate_z_score(value, mean, std) ==
  IF std = 0 THEN 0
  ELSE IF value = NAN THEN NAN
  ELSE (value - mean) \div std

\* variant: the coefficient 0.1 is left out
WeightedTerm_FullCoefficient(weight, z, unit) ==
  IF z = NAN THEN NaNTime ELSE Scaled(weight * z, 100 * unit)

\* weight (hundredths) * z (in units of 1/unit) * 0.1, as a time
WeightedTerm(weight, z, unit) ==
  IF z = NAN THEN NaNTime ELSE Scaled(weight * z, 100 * 10 * unit)

\* variant: the noise is added whatever chaos_mode is
ChaosStep_Always(adjusted, chaos_mode, chaos_noise) == FAdd(adjusted, chaos_noise)

\* the chaos step for one competitor; chaos_noise is the np.random.normal
\* draw
ChaosStep(adjusted, chaos_mode, chaos_noise) ==
  IF chaos_mode THEN FAdd(adjusted, chaos_noise) ELSE adjusted

\* the five coefficients the overlay multiplies
CoefficientNames ==
  { "track_suitability", "clean_air_pace", "qualifying_importance",
    "team_form", "weather_impact" }

\* weights.<name> * z raises TypeError when the request gave null for the
\* coefficient; the loop body runs for the first competitor
OverlayRaises(drivers, weights) ==
  /\ Len(drivers) > 0
  /\ \E name \in CoefficientNames : weights[name] = NONE

_apply_weight_adjustments(predicted_times, features_df, drivers, weights, noise) ==
  [ i \in 1..Len(predicted_times) |->
      IF i > Len(drivers)
        THEN predicted_times[i]
        ELSE
          LET z(name) == _calculate_z_score(features_df[i][Col(name)], 0, 1)
              u(name) == FeatureUnit[Col(name)]
              z_track == z("average_position_change")
              z_pace == z("clean_air_pace")
              z_quali == z("qualifying_time")
              z_team == z("team_performance_score")
              z_weather == z("rain_probability")
              adjustment ==
                FAdd(FAdd(FAdd(FAdd(
                  WeightedTerm(weights.track_suitability, z_track,
                               u("average_position_change")),
                  WeightedTerm(weights.clean_air_pace, z_pace,
                               u("clean_air_pace"))),
                  WeightedTerm(weights.qualifying_importance, z_quali,
                               u("qualifying_time"))),
                  WeightedTerm(weights.team_form, z_team,
                               u("team_performance_score"))),
                  WeightedTerm(weights.weather_impact, z_weather,
                               u("rain_probability")))
              adjusted == FAdd(predicted_times[i], adjustment)
          IN  ChaosStep(adjusted, weights.chaos_mode, noise[i]) ]

(***************************************************************************)
(* Ranking.                                                                *)
(***************************************************************************)
Perms(n) ==
  { p \in [1..n -> 1..n] : \A i, j \in 1..n : p[i] = p[j] => i = j }

\* the order np.argsort sorts by: NaN after every number
SortsBefore(a, b) == FLt(a, b) \/ (~a.nan /\ b.nan)

\* np.argsort(times) with the default kind 'quicksort', which is not a
\* stable sort: any index order that is ascending in the values
ArgSorts(times) ==
  { p \in Perms(Len(times)) :
      \A i, j \in 1..Len(times) :
        i < j => ~SortsBefore(times[p[j]], times[p[i]]) }

\* np.argsort is a deterministic function of its input; which of the
\* ascending orders it returns for equal values depends on the sort the
\* build of the library uses: ties in index order or in reverse index order
ArgsortKinds == { "stable", "reverse" }

argsort(times, kind) ==
  CHOOSE p \in ArgSorts(times) :
    \A i, j \in 1..Len(times) :
      (i < j /\ ~SortsBefore(times[p[i]], times[p[j]]))
        => IF kind = "stable" THEN p[i] < p[j] ELSE p[i] > p[j]

\* probabilities are in hundredths; i is the 0-based rank
\* variant: no floor
WinProbability_NoFloor(i) == 95 - (i * 5)

WinProbability(i) == Max2(1, 95 - (i * 5))

\* variant: no floor
Top3Probability_NoFloor(i) ==
  IF i < 3 THEN 80 - (i * 10) ELSE 50 - ((i - 3) * 5)

Top3Probability(i) ==
  IF i < 3 THEN 80 - (i * 10) ELSE Max2(5, 50 - ((i - 3) * 5))

\* variant: the k-th entry takes the k-th driver code instead of the code
\* at the sorted index
_times_to_predictions_ByPosition(drivers, predicted_times, sorted_indices) ==
  [ k \in 1..Len(sorted_indices) |->
      LET idx == sorted_indices[k]
          i == k - 1
      IN  [ driver |-> drivers[k],
            team |-> Get(driver_to_team, drivers[k], "Unknown"),
            predicted_time |-> predicted_times[idx],
            win_probability |-> WinProbability(i),
            top3_probability |-> Top3Probability(i) ] ]

_times_to_predictions(drivers, predicted_times, sorted_indices) ==
  [ k \in 1..Len(sorted_indices) |->
      LET idx == sorted_indices[k]
          i == k - 1
      IN  [ driver |-> drivers[idx],
            team |-> Get(driver_to_team, drivers[idx], "Unknown"),
            predicted_time |-> predicted_times[idx],
            win_probability |-> WinProbability(i),
            top3_probability |-> Top3Probability(i) ] ]

\* one step of a stable insertion: x goes after the last element that is
\* not greater than it under the float comparison <
InsertSorted(s, x) ==
  LET RECURSIVE Ins(_)
      Ins(n) ==
        IF n = 0 THEN << x >>
        ELSE IF FLt(x.predicted_time, s[n].predicted_time)
          THEN Append(Ins(n - 1), s[n])
          ELSE Append(SubSeq(s, 1, n), x)
  IN  Ins(Len(s))

\* sorted(predictions, key=lambda x: x.predicted_time)
SortedByTime(predictions) ==
  LET RECURSIVE Pre(_)
      Pre(n) == IF n = 0 THEN << >>
                ELSE InsertSorted(Pre(n - 1), predictions[n])
  IN  Pre(Len(predictions))

(***************************************************************************)
(* The loop of predict_race over the roster and the steps after it.  The   *)
(* result of _build_driver_features for one competitor is a record         *)
(* [ok, features]: ok is FALSE when it returned None.                      *)
(***************************************************************************)
BuiltRow(features) == [ ok |-> TRUE, features |-> features ]

NoFeatures == [ ok |-> FALSE, features |-> << >> ]

\* variant: the driver code is appended whatever _build_driver_features
\* returned
CollectFeatures_KeepDriver(roster, built) ==
  LET keep == SelectSeq([ i \in 1..Len(roster) |-> i ],
                        LAMBDA i : built[i].ok)
  IN  [ driver_features |-> [ k \in 1..Len(keep) |-> built[keep[k]].features ],
        drivers |-> roster ]

\* driver_features and drivers after the loop: a competitor is appended to
\* both or to neither
CollectFeatures(roster, built) ==
  LET keep == SelectSeq([ i \in 1..Len(roster) |-> i ],
                        LAMBDA i : built[i].ok)
  IN  [ driver_features |-> [ k \in 1..Len(keep) |-> built[keep[k]].features ],
        drivers |-> [ k \in 1..Len(keep) |-> roster[keep[k]] ] ]

\* imputation, raw times, overlay, ranking and sort for the competitors
\* that were collected, on objects that do not raise
RankBatch(drivers, driver_features, mdl, imp, weights, noise, kind) ==
  LET features_imputed ==
        [ i \in 1..Len(driver_features) |-> Transform(imp, driver_features[i]) ]
      predicted_times ==
        IF mdl = NoneObj
          THEN _create_mock_predictions(driver_features)
          ELSE [ i \in 1..Len(features_imputed) |->
                   ModelPredict(mdl, features_imputed[i]) ]
      adjusted_times ==
        _apply_weight_adjustments(predicted_times, driver_features, drivers,
                                  weights, noise)
      sorted_indices == argsort(adjusted_times, kind)
  IN  [ drivers |-> drivers,
        features_df |-> driver_features,
        predicted_times |-> predicted_times,
        adjusted_times |-> adjusted_times,
        predictions |->
          SortedByTime(_times_to_predictions(drivers, adjusted_times,
                                             sorted_indices)) ]

\* if not driver_features: return []
EmptyBatch ==
  [ drivers |-> << >>, features_df |-> << >>, predicted_times |-> << >>,
    adjusted_times |-> << >>, predictions |-> << >> ]

\* predict_race from the loop to the return, on objects that do not raise
PredictBatch(roster, built, mdl, imp, weights, noise, kind) ==
  LET collected == CollectFeatures(roster, built)
  IN  IF collected.driver_features = << >>
        THEN EmptyBatch
        ELSE RankBatch(collected.drivers, collected.driver_features, mdl, imp,
                       weights, noise, kind)

(***************************************************************************)
(* Request weights.                                                        *)
(***************************************************************************)
\* variant: a key the request omits gets 0 (False for chaos_mode)
PredictionWeights_ZeroDefaults(kwargs) ==
  [ track_suitability |-> Get(kwargs, "track_suitability", 0),
    clean_air_pace |-> Get(kwargs, "clean_air_pace", 0),
    qualifying_importance |-> Get(kwargs, "qualifying_importance", 0),
    team_form |-> Get(kwargs, "team_form", 0),
    weather_impact |-> Get(kwargs, "weather_impact", 0),
    chaos_mode |-> Get(kwargs, "chaos_mode", FALSE) ]

\* PredictionWeights.__init__(**kwargs); coefficients are in hundredths
PredictionWeights(kwargs) ==
  [ track_suitability |-> Get(kwargs, "track_suitability", 85),
    clean_air_pace |-> Get(kwargs, "clean_air_pace", 90),
    qualifying_importance |-> Get(kwargs, "qualifying_importance", 85),
    team_form |-> Get(kwargs, "team_form", 68),
    weather_impact |-> Get(kwargs, "weather_impact", 45),
    chaos_mode |-> Get(kwargs, "chaos_mode", FALSE) ]

(***************************************************************************)
(* Persistence.  The file models/race_prediction_model.pkl is a record     *)
(* [state, model, imputer, feature_names]; state is "absent", "corrupt"    *)
(* (pickle.load or a key lookup raises) or "ok".                           *)
(***************************************************************************)
NoFile ==
  [ state |-> "absent", model |-> NoneObj, imputer |-> NoneObj,
    feature_names |-> << >> ]

CorruptFile ==
  [ state |-> "corrupt", model |-> NoneObj, imputer |-> NoneObj,
    feature_names |-> << >> ]

_create_default_model == [ model |-> Unfitted(0), imputer |-> Unfitted(0) ]

\* the engine's (model, imputer) after load_model
load_model(file) ==
  IF file.state = "ok"
    THEN [ model |-> file.model, imputer |-> file.imputer ]
    ELSE _create_default_model

\* the file after _save_model; outcome "ok", "no_open" (makedirs or open
\* raised: nothing written) or "partial" (open truncated the file and
\* pickle.dump raised); the exception is swallowed
_save_model(file, mdl, imp, outcome) ==
  CASE outcome = "ok" ->
         [ state |-> "ok", model |-> mdl, imputer |-> imp,
           feature_names |-> feature_names ]
    [] outcome = "no_open" -> file
    [] outcome = "partial" -> CorruptFile

\* get_feature_importance: reading feature_importances_ of a model that is
\* not fitted raises NotFittedError
get_feature_importance(mdl) ==
  IF mdl = NoneObj
    THEN [ raises |-> FALSE, value |-> [ k \in {} |-> 0 ] ]
  ELSE IF ~mdl.fitted
    THEN [ raises |-> TRUE, value |-> [ k \in {} |-> 0 ] ]
  ELSE [ raises |-> FALSE,
         value |-> ZipDict(feature_names, FeatureImportances(mdl)) ]

(***************************************************************************)
(* Training.  A training example is a record                               *)
(*   [nfeatures, features, actual_time]                                    *)
(* nfeatures = len(features); features is "num" (numbers, NaN allowed) or  *)
(* "str" (a value the imputer cannot convert); actual_time is "num",       *)
(* "none" (missing or None) or "nan" (float('nan'), which the regressor    *)
(* and the metric reject).                                                 *)
(***************************************************************************)
MinSamples == 10

\* the examples that pass the shape check of the loop
ValidExamples(training_data) ==
  SelectSeq(training_data,
            LAMBDA e : e.nfeatures = Len(feature_names) /\ e.actual_time # "none")

\* variant: the threshold is one example too low
InsufficientData_OneLess(X) == Len(X) < MinSamples - 1

\* variant: the threshold itself is refused
InsufficientData_Inclusive(X) == Len(X) <= MinSamples

InsufficientData(X) == Len(X) < MinSamples

\* train_test_split(test_size=0.3): the number of held-out examples
TestSamples(n) == (3 * n + 9) \div 10

ErrorResult(msg) ==
  [ status |-> "error", error |-> msg, feature_importance |-> [ k \in {} |-> 0 ],
    training_samples |-> 0, test_samples |-> 0 ]

NoResult ==
  [ status |-> "none", error |-> "", feature_importance |-> [ k \in {} |-> 0 ],
    training_samples |-> 0, test_samples |-> 0 ]

\* The whole of train_model.  newArt identifies the objects it creates;
\* badInTrain tells whether the seeded shuffle puts a NaN
\* target into the training part (it is in the held-out part otherwise);
\* saveOutcome is the outcome of writing the file.  The result is the
\* engine state, the file and the returned dict.
train_model(mdl, imp, file, training_data, newArt, badInTrain, saveOutcome) ==
  LET X == ValidExamples(training_data)
      keep(res) == [ model |-> mdl, imputer |-> imp, file |-> file, result |-> res ]
      badX == \E i \in 1..Len(X) : X[i].features = "str"
      badY == \E i \in 1..Len(X) : X[i].actual_time = "nan"
      allBadY == \A i \in 1..Len(X) : X[i].actual_time = "nan"
  IN  IF Len(training_data) = 0 THEN keep(ErrorResult("No training data"))
      ELSE IF InsufficientData(X) THEN keep(ErrorResult("Insufficient training data"))
      ELSE IF badX
        \* self.imputer = SimpleImputer(...); fit_transform raises
        THEN [ model |-> mdl, imputer |-> Unfitted(newArt), file |-> file,
               result |-> ErrorResult("ValueError") ]
      ELSE IF badY /\ (allBadY \/ badInTrain)
        \* self.model = GradientBoostingRegressor(...); fit raises
        THEN [ model |-> Unfitted(newArt), imputer |-> Fitted(newArt),
               file |-> file, result |-> ErrorResult("ValueError") ]
      ELSE IF badY
        \* mean_absolute_error raises on the held-out targets
        THEN [ model |-> Fitted(newArt), imputer |-> Fitted(newArt),
               file |-> file, result |-> ErrorResult("ValueError") ]
      ELSE [ model |-> Fitted(newArt), imputer |-> Fitted(newArt),
             file |-> _save_model(file, Fitted(newArt), Fitted(newArt), saveOutcome),
             result |->
               [ status |-> "success", error |-> "",
                 feature_importance |->
                   ZipDict(feature_names, FeatureImportances(Fitted(newArt))),
                 training_samples |-> Len(X),
                 test_samples |-> TestSamples(Len(X)) ] ]

(***************************************************************************)
(* The prediction route (routers/predict.py).  A race start time is the    *)
(* hour of the day of race_datetime, or NoDatetime for None.  An           *)
(* explanation is the list of its sentences, each a record [kind, feature] *)
(* (the string is these sentences joined by ". " and closed by ".").       *)
(***************************************************************************)
NoDatetime == -1

Sentence(kind, feature) == [ kind |-> kind, feature |-> feature ]

\* max(feature_importance.items(), key=lambda x: x[1])[0]: the first name,
\* in the order of the dict, whose value is the largest
TopFeature(feature_importance) ==
  LET idx == { i \in 1..Len(feature_names) :
                 feature_names[i] \in DOMAIN feature_importance }
      val(i) == feature_importance[feature_names[i]]
      best == CHOOSE i \in idx :
                /\ \A j \in idx : val(j) <= val(i)
                /\ \A j \in idx : val(j) = val(i) => i <= j
  IN  feature_names[best]

\* variant: no generic sentence
OrGenericSentence_Never(explanations) == explanations

\* if not explanations: the generic sentence
OrGenericSentence(explanations) ==
  IF explanations = << >> THEN << Sentence("generic", "") >>
                          ELSE explanations

\* weights.<name> > 0.8 raises TypeError when the request gave null for one
\* of the four coefficients the explanation compares
ExplanationRaises(weights) ==
  \/ weights.track_suitability = NONE
  \/ weights.clean_air_pace = NONE
  \/ weights.qualifying_importance = NONE
  \/ weights.weather_impact = NONE

_generate_prediction_explanation(weights, race_datetime, feature_importance) ==
  LET when(c, x) == IF c THEN << x >> ELSE << >>
      explanations ==
        when(weights.track_suitability > 80, Sentence("track_suitability", ""))
        \o when(weights.clean_air_pace > 80, Sentence("clean_air_pace", ""))
        \o when(weights.qualifying_importance > 80,
                Sentence("qualifying_importance", ""))
        \o when(weights.weather_impact > 60, Sentence("weather_impact", ""))
        \o when(weights.chaos_mode, Sentence("chaos_mode", ""))
        \o (IF DOMAIN feature_importance # {}
              THEN << Sentence("top_feature", TopFeature(feature_importance)) >>
              ELSE << >>)
        \o when(race_datetime # NoDatetime /\ race_datetime < 10,
                Sentence("early_start", ""))
        \o when(race_datetime # NoDatetime /\ ~(race_datetime < 10)
                  /\ race_datetime > 18,
                Sentence("late_start", ""))
  IN  OrGenericSentence(explanations)

_create_fallback_predictions ==
  << [ driver |-> "VER", team |-> "Red Bull", predicted_time |-> Mk(5400, 0),
       win_probability |-> 35, top3_probability |-> 75 ],
     [ driver |-> "NOR", team |-> "McLaren", predicted_time |-> Mk(5405, 0),
       win_probability |-> 25, top3_probability |-> 65 ],
     [ driver |-> "LEC", team |-> "Ferrari", predicted_time |-> Mk(5410, 0),
       win_probability |-> 15, top3_probability |-> 55 ],
     [ driver |-> "PIA", team |-> "McLaren", predicted_time |-> Mk(5412, 0),
       win_probability |-> 12, top3_probability |-> 50 ],
     [ driver |-> "RUS", team |-> "Mercedes", predicted_time |-> Mk(5415, 0),
       win_probability |-> 8, top3_probability |-> 45 ],
     [ driver |-> "HAM", team |-> "Mercedes", predicted_time |-> Mk(5418, 0),
       win_probability |-> 5, top3_probability |-> 40 ] >>

NoResponse ==
  [ kind |-> "none", predictions |-> << >>,
    feature_importance |-> [ k \in {} |-> 0 ], model_confidence |-> 0,
    explanation |-> << >>, race_datetime |-> NoDatetime ]

\* the except branch of the route: the hard-coded list
FallbackResponse(error) ==
  [ kind |-> "fallback", predictions |-> _create_fallback_predictions,
    feature_importance |-> [ k \in {} |-> 0 ], model_confidence |-> 30,
    explanation |-> << Sentence("fallback_error", error) >>,
    race_datetime |-> NoDatetime ]

\* the route after predict_race has returned: importance lookup, confidence,
\* explanation, response
PredictionResponse(preds, mdl, weights, race_datetime) ==
  LET importance == get_feature_importance(mdl)
  IN  IF importance.raises THEN FallbackResponse("NotFittedError")
      ELSE IF ExplanationRaises(weights) THEN FallbackResponse("TypeError")
      ELSE [ kind |-> "normal", predictions |-> preds,
             feature_importance |-> importance.value,
             model_confidence |-> IF mdl = NoneObj THEN 45 ELSE 85,
             explanation |->
               _generate_prediction_explanation(weights, race_datetime,
                                                importance.value),
             race_datetime |-> race_datetime ]

\* the feature-importance route: 500 when the lookup raises
FeatureImportanceReply(mdl) ==
  LET importance == get_feature_importance(mdl)
  IN  IF importance.raises
        THEN [ status |-> 500, feature_importance |-> [ k \in {} |-> 0 ],
               model_available |-> FALSE ]
        ELSE [ status |-> 200, feature_importance |-> importance.value,
               model_available |-> mdl # NoneObj ]

(***************************************************************************)
(* State.                                                                  *)
(***************************************************************************)
VARIABLES
  model,           \* self.model
  imputer,         \* self.imputer
  disk,            \* models/race_prediction_model.pkl
  nextArt,         \* identity of the next objects train_model creates
  pc,              \* position of the predict_race call in flight
  weights,         \* its PredictionWeights
  request_weights, \* request.weights, the dict the route built them from
  event,           \* its event
  race_datetime,   \* whether it was given a race_datetime
  weather_data,    \* its local weather_data
  clean_air_pace,  \* its local clean_air_pace
  features_df,     \* the features_df its prediction was computed from
  predictions,     \* the list it returns
  used,            \* the imputer and model it called transform/predict on
  startUsable,     \* whether the engine held a fitted artifact when it started
  training_data,   \* argument of the train_model call that just ran
  train_result,    \* dict it returned, until the caller has taken it
  argsort_kind,    \* tie rule of np.argsort in this build of the library
  forecast,        \* what get_weather_forecast returned to the call in flight
  pace_data,       \* what get_clean_air_race_pace returned to it
  quali_results,   \* what get_qualifying_results returned to it
  response,        \* the response of the prediction route
  fn,              \* a call that has just run: its name, "none" if none
  args,            \* its arguments
  ret              \* what it returned

vars ==
  << model, imputer, disk, nextArt, pc, weights, request_weights, event, race_datetime,
     weather_data, clean_air_pace, features_df, predictions, used,
     startUsable, training_data, train_result, argsort_kind, forecast,
     pace_data, quali_results, response, fn, args, ret >>

engineVars == << model, imputer, disk, nextArt, argsort_kind >>

trainVars == << training_data, train_result >>

\* the locals of the predict_race call in flight and of its route
frameVars ==
  << pc, weights, request_weights, event, race_datetime, weather_data, clean_air_pace,
     features_df, predictions, used, startUsable, forecast, pace_data,
     quali_results, response >>

callVars == << fn, args, ret >>

\* the engine can predict: transform and predict do not raise
Usable(mdl, imp) == mdl.fitted /\ imp.fitted

(***************************************************************************)
(* Inputs of the model.                                                    *)
(***************************************************************************)
\* the artifact a previous run of the service saved, and the same artifact
\* saved by a build whose feature_names are in another order
SavedFile ==
  [ state |-> "ok", model |-> Fitted(1), imputer |-> Fitted(1),
    feature_names |-> feature_names ]

OtherLayoutFile ==
  [ state |-> "ok", model |-> Fitted(1), imputer |-> Fitted(1),
    feature_names |->
      << "clean_air_pace", "rain_probability", "temperature",
         "team_performance_score", "qualifying_time",
         "average_position_change" >> ]

InitialFiles == { NoFile, CorruptFile, SavedFile, OtherLayoutFile }

ZeroWeights ==
  [ track_suitability |-> 0, clean_air_pace |-> 0, qualifying_importance |-> 0,
    team_form |-> 0, weather_impact |-> 0, chaos_mode |-> FALSE ]

\* requests: the weights dict, the event, and the start time of the race
\* (race_datetime)
Requests ==
  { [ kwargs |-> ZeroWeights, event |-> "Monaco", dt |-> NoDatetime ],
    [ kwargs |-> ZeroWeights, event |-> "Monza", dt |-> 14 ],
    [ kwargs |-> [ k \in {} |-> 0 ], event |-> "Monaco", dt |-> 9 ],
    [ kwargs |-> [ ZeroWeights EXCEPT !.chaos_mode = TRUE ],
      event |-> "Monza", dt |-> NoDatetime ],
    [ kwargs |-> [ ZeroWeights EXCEPT !.team_form = NONE ],
      event |-> "Monaco", dt |-> NoDatetime ] }

WeatherOutcomes ==
  { NoWeather,
    [ present |-> TRUE, temperature_c |-> 285, precipitation_prob |-> 6 ] }

\* a provider call that raised or returned nothing
NoData == [ ok |-> FALSE, data |-> [ d \in {} |-> 0 ] ]

\* the provider raises or returns {}, or returns a pace for some competitors
PaceOutcomes ==
  { NoData } \cup
  { [ ok |-> TRUE, data |-> [ d \in S |-> 94100 ] ] :
      S \in { { Roster[1] }, RosterSet } }

\* a competitor that set a time in every session, one eliminated in Q1
\* (the frame holds NaN for the sessions it did not run) and one with no
\* time at all
QualiRows ==
  { [ Q1 |-> 712, Q2 |-> 708, Q3 |-> 704 ],
    [ Q1 |-> 715, Q2 |-> NAN, Q3 |-> NAN ],
    [ Q1 |-> NONE, Q2 |-> NONE, Q3 |-> NONE ] }

\* per-competitor values: one value for the first competitor of the
\* roster and one for the others
PerDriver(S) ==
  { [ d \in RosterSet |-> IF d = Roster[1] THEN a ELSE b ] : a, b \in S }

PerIndex(S) ==
  { [ i \in 1..Len(Roster) |-> IF i = 1 THEN a ELSE b ] : a, b \in S }

QualiOutcomes ==
  { NoData } \cup
  { [ ok |-> TRUE, data |-> f ] : f \in PerDriver(QualiRows) }

\* draws of np.random.normal(0, 0.1) in tenths, of np.random.normal(0, 0.2)
\* in thousandths, and of np.random.normal(0, 2.0) as times
QualiJitter == { -1, 1 }

PaceJitter == { -200, 200 }

ChaosNoise == { Mk(-2, 0), Mk(2, 0) }

Example(n, f, t) == [ nfeatures |-> n, features |-> f, actual_time |-> t ]

GoodExample == Example(Len(feature_names), "num", "num")

Rep(n, e) == [ i \in 1..n |-> e ]

TrainingInputs ==
  { << >>,
    Rep(MinSamples - 1, GoodExample),
    Rep(MinSamples, GoodExample),
    Append(Rep(MinSamples - 1, GoodExample),
           Example(Len(feature_names) - 1, "num", "num")),
    Append(Rep(MinSamples, GoodExample),
           Example(Len(feature_names), "num", "none")),
    Append(Rep(MinSamples - 1, GoodExample),
           Example(Len(feature_names), "str", "num")),
    Append(Rep(MinSamples - 1, GoodExample),
           Example(Len(feature_names), "num", "nan")) }

SaveOutcomes == { "ok", "no_open", "partial" }

(***************************************************************************)
(* Initial state: the state after PredictionService() is constructed.      *)
(***************************************************************************)
NoFrame ==
  /\ pc' = "idle"
  /\ weights' = ZeroWeights
  /\ request_weights' = ZeroWeights
  /\ event' = "Monaco"
  /\ race_datetime' = NoDatetime
  /\ weather_data' = NoWeather
  /\ clean_air_pace' = [ d \in {} |-> 0 ]
  /\ features_df' = << >>
  /\ predictions' = << >>
  /\ used' = [ imputer |-> NoneObj, model |-> NoneObj ]
  /\ startUsable' = FALSE
  /\ forecast' = NoWeather
  /\ pace_data' = NoData
  /\ quali_results' = NoData
  /\ response' = NoResponse

\* no call of a route or of a function has just run
NoCall ==
  /\ fn = "none"
  /\ args = << >>
  /\ ret = << >>

\* no predict_race call in flight
FrameInit ==
  /\ pc = "idle"
  /\ weights = ZeroWeights
  /\ request_weights = ZeroWeights
  /\ event = "Monaco"
  /\ race_datetime = NoDatetime
  /\ weather_data = NoWeather
  /\ clean_air_pace = [ d \in {} |-> 0 ]
  /\ features_df = << >>
  /\ predictions = << >>
  /\ used = [ imputer |-> NoneObj, model |-> NoneObj ]
  /\ startUsable = FALSE
  /\ forecast = NoWeather
  /\ pace_data = NoData
  /\ quali_results = NoData
  /\ response = NoResponse
  /\ training_data = << >>
  /\ train_result = NoResult

Init ==
  /\ disk \in InitialFiles
  /\ model = load_model(disk).model
  /\ imputer = load_model(disk).imputer
  /\ nextArt = 2
  /\ argsort_kind \in ArgsortKinds
  /\ FrameInit
  /\ NoCall

\* nothing has returned a value that its caller has not taken yet
Quiet == train_result = NoResult /\ fn = "none"

(***************************************************************************)
(* predict_race.  The coroutine can be suspended at its three awaits       *)
(* (weather forecast, pace data, qualifying data); everything between two  *)
(* awaits runs without interruption on the event loop.                     *)
(***************************************************************************)
\* variant: an imputer that is not fitted is fitted on the request
ImputerForPredict_FitOnDemand(imp) ==
  IF imp = NoneObj \/ ~imp.fitted THEN Fitted(imp.art) ELSE imp

\* self.imputer after the missing-value step of predict_race
ImputerForPredict(imp) == IF imp = NoneObj THEN Fitted(0) ELSE imp

\* predict_race is called: the weights are built by the router; without a
\* race_datetime the default snapshot is taken at once
PredictStart ==
  /\ pc = "idle"
  /\ Quiet
  /\ \E request \in Requests :
       /\ request_weights' = request.kwargs
       /\ weights' = PredictionWeights(request.kwargs)
       /\ event' = request.event
       /\ race_datetime' = request.dt
       /\ weather_data' = IF request.dt # NoDatetime THEN NoWeather
                                                     ELSE DefaultWeather
       /\ pc' = IF request.dt # NoDatetime THEN "weather" ELSE "pace"
  /\ startUsable' = Usable(model, imputer)
  /\ UNCHANGED << engineVars, trainVars, callVars, clean_air_pace, features_df,
                  predictions, used, forecast, pace_data, quali_results,
                  response >>

\* weather_service.get_weather_forecast returns (None on any failure)
WeatherReturn ==
  /\ pc = "weather"
  /\ Quiet
  /\ \E outcome \in WeatherOutcomes :
       /\ forecast' = outcome
       /\ weather_data' = IF outcome.present THEN outcome ELSE DefaultWeather
  /\ pc' = "pace"
  /\ UNCHANGED << engineVars, trainVars, callVars, weights, request_weights, event,
                  race_datetime, clean_air_pace, features_df, predictions,
                  used, startUsable, pace_data, quali_results, response >>

\* _get_clean_air_pace_data returns
PaceReturn ==
  /\ pc = "pace"
  /\ Quiet
  /\ \E outcome \in PaceOutcomes :
       /\ pace_data' = outcome
       /\ clean_air_pace' = _get_clean_air_pace_data(outcome)
  /\ pc' = "quali"
  /\ UNCHANGED << engineVars, trainVars, callVars, weights, request_weights, event,
                  race_datetime, weather_data, features_df, predictions, used,
                  startUsable, forecast, quali_results, response >>

\* _get_qualifying_predictions returns and predict_race runs to its return:
\* feature building, imputation, prediction, overlay, ranking, sort.  An
\* exception anywhere makes it return [].
QualiReturn ==
  /\ pc = "quali"
  /\ Quiet
  /\ \E outcome \in QualiOutcomes,
        qj \in PerDriver(QualiJitter),
        pj \in PerDriver(PaceJitter),
        noise \in PerIndex(ChaosNoise) :
       LET qualifying_data == _get_qualifying_predictions(outcome, qj)
           built ==
             [ i \in 1..Len(Roster) |->
                 BuiltRow(
                   _build_driver_features(Roster[i], driver_to_team[Roster[i]],
                                          event, weather_data, clean_air_pace,
                                          qualifying_data, qj[Roster[i]],
                                          pj[Roster[i]])) ]
           collected == CollectFeatures(Roster, built)
           drivers == collected.drivers
           driver_features == collected.driver_features
           imp == ImputerForPredict(imputer)
           transformRaises == ~imp.fitted
           predictRaises == model # NoneObj /\ ~model.fitted
           batch == PredictBatch(Roster, built, model, imp, weights, noise,
                                 argsort_kind)
           overlayRaises == OverlayRaises(drivers, weights)
           raises == transformRaises \/ predictRaises \/ overlayRaises
       IN  \* draws that are not used are not enumerated
           /\ \A d \in RosterSet :
                /\ (outcome.ok /\ d \in DOMAIN qualifying_data)
                     => qj[d] = Canon(QualiJitter)
                /\ d \in DOMAIN clean_air_pace => pj[d] = Canon(PaceJitter)
           /\ ~weights.chaos_mode =>
                \A i \in 1..Len(Roster) : noise[i] = Canon(ChaosNoise)
           /\ features_df' = IF raises THEN << >> ELSE driver_features
           /\ quali_results' = IF raises THEN NoData ELSE outcome
           /\ imputer' = imp
           /\ used' = [ imputer |-> imp,
                        model |-> IF transformRaises THEN NoneObj ELSE model ]
           /\ predictions' =
                IF raises
                  THEN << >>
                  ELSE batch.predictions
  /\ pc' = "done"
  /\ UNCHANGED << model, disk, nextArt, argsort_kind, trainVars, callVars,
                  weights, request_weights, event, race_datetime, weather_data, clean_air_pace,
                  startUsable, forecast, pace_data, response >>

\* predict_race has returned its list to the route, which builds the
\* response; nothing runs between the end of predict_race and this step
PredictReturn ==
  /\ pc = "done"
  /\ Quiet
  /\ response' = PredictionResponse(predictions, model, weights, race_datetime)
  /\ pc' = "responded"
  /\ UNCHANGED << engineVars, trainVars, callVars, weights, request_weights, event,
                  race_datetime, weather_data, clean_air_pace, features_df,
                  predictions, used, startUsable, forecast, pace_data,
                  quali_results >>

\* the response is sent
ResponseSent ==
  /\ pc = "responded"
  /\ Quiet
  /\ NoFrame
  /\ UNCHANGED << engineVars, trainVars, callVars >>

(***************************************************************************)
(* train_model has no await: it runs from call to return in one step, and *)
(* its caller takes the returned dict before anything else runs.  It can   *)
(* run while a predict_race call is suspended at an await.                 *)
(***************************************************************************)
TrainModel ==
  /\ Quiet
  /\ pc \notin { "done", "responded" }
  /\ \E data \in TrainingInputs, badInTrain \in BOOLEAN,
        saveOutcome \in SaveOutcomes :
       LET X == ValidExamples(data)
           creates == Len(data) # 0 /\ ~InsufficientData(X)
           r == train_model(model, imputer, disk, data, nextArt, badInTrain,
                            saveOutcome)
           fits == creates /\ \A i \in 1..Len(X) : X[i].features = "num"
           someNaN == \E i \in 1..Len(X) : X[i].actual_time = "nan"
       IN  /\ creates => nextArt <= MaxArt
           \* choices that are not used are not enumerated
           /\ ~(fits /\ someNaN) => badInTrain = Canon(BOOLEAN)
           /\ ~(fits /\ ~someNaN) => saveOutcome = Canon(SaveOutcomes)
           /\ model' = r.model
           /\ imputer' = r.imputer
           /\ disk' = r.file
           /\ train_result' = r.result
           /\ training_data' = data
           /\ nextArt' = IF creates THEN nextArt + 1 ELSE nextArt
  /\ UNCHANGED << argsort_kind, frameVars, callVars >>

TrainReturn ==
  /\ train_result # NoResult
  /\ training_data' = << >>
  /\ train_result' = NoResult
  /\ UNCHANGED << engineVars, frameVars, callVars >>

(***************************************************************************)
(* The feature-importance route.  It has no await either.                  *)
(***************************************************************************)
GetFeatureImportance ==
  /\ Quiet
  /\ pc \notin { "done", "responded" }
  /\ fn' = "get_feature_importance"
  /\ args' = << >>
  /\ ret' = FeatureImportanceReply(model)
  /\ UNCHANGED << engineVars, trainVars, frameVars >>

\* the caller takes the value
CallReturn ==
  /\ fn # "none"
  /\ fn' = "none"
  /\ args' = << >>
  /\ ret' = << >>
  /\ UNCHANGED << engineVars, trainVars, frameVars >>

(***************************************************************************)
(* The process is restarted: PredictionService() is constructed again and  *)
(* load_model reads the file.                                              *)
(***************************************************************************)
Restart ==
  /\ Quiet
  /\ pc \notin { "done", "responded" }
  /\ model' = load_model(disk).model
  /\ imputer' = load_model(disk).imputer
  /\ NoFrame
  /\ training_data' = << >>
  /\ train_result' = NoResult
  /\ UNCHANGED << disk, nextArt, argsort_kind, callVars >>

Next ==
  \/ PredictStart
  \/ WeatherReturn
  \/ PaceReturn
  \/ QualiReturn
  \/ PredictReturn
  \/ ResponseSent
  \/ TrainModel
  \/ TrainReturn
  \/ GetFeatureImportance
  \/ CallReturn
  \/ Restart

Spec == Init /\ [][Next]_vars

(***************************************************************************)
(* The functions of the engine and of the route that depend on their       *)
(* arguments only, applied to arguments drawn from bounded sets.  The      *)
(* engine is at rest, as constructed without a file.                       *)
(***************************************************************************)
\* the probabilities the loop of _times_to_predictions gives to ranks
\* 0..n-1
RankProbabilities(n) ==
  [ k \in 1..n |-> [ win_probability |-> WinProbability(k - 1),
                     top3_probability |-> Top3Probability(k - 1) ] ]

\* a competitor of the roster in the history table of Monaco, one that is
\* not in it, and teams in and not in the strength table
FeatureDrivers == { "VER", "NOR", "TSU" }

FeatureTeams(driver) == { driver_to_team[driver], "Cadillac" }

FeatureEvents == { "Monaco", "Monza" }

\* a provider mapping with and without a value for the competitor
FeatureMappings(driver, value) ==
  { [ d \in {} |-> 0 ], [ d \in { driver } |-> value ],
    [ d \in { "HAM" } |-> value ] }

ExplanationWeights ==
  { [ track_suitability |-> ts, clean_air_pace |-> cap,
      qualifying_importance |-> qi, team_form |-> 68, weather_impact |-> wi,
      chaos_mode |-> ch ] :
      ts \in { 80, 85 }, cap \in { 80, 90 }, qi \in { 80, 85 },
      wi \in { 60, 61 }, ch \in BOOLEAN }

ExplanationHours == { NoDatetime, 9, 10, 14, 18, 19 }

ExplanationImportances ==
  { [ k \in {} |-> 0 ], ZipDict(feature_names, FeatureImportances(Fitted(1))) }

RouteErrors == { "NotFittedError", "TypeError" }

PureInit ==
  /\ disk = NoFile
  /\ model = load_model(disk).model
  /\ imputer = load_model(disk).imputer
  /\ nextArt = 2
  /\ argsort_kind = "stable"
  /\ FrameInit
  /\ NoCall

CallRankProbabilities ==
  /\ fn = "none"
  /\ \E n \in 1..MaxRanks :
       /\ args' = [ n |-> n ]
       /\ ret' = RankProbabilities(n)
  /\ fn' = "_times_to_predictions"
  /\ UNCHANGED << engineVars, trainVars, frameVars >>

CallBuildDriverFeatures ==
  /\ fn = "none"
  /\ \E driver \in FeatureDrivers, venue \in FeatureEvents,
        weather \in { DefaultWeather } \cup (WeatherOutcomes \ { NoWeather }),
        qjitter \in QualiJitter, pjitter \in PaceJitter :
       \E team \in FeatureTeams(driver),
          pace \in FeatureMappings(driver, 94100),
          quali \in FeatureMappings(driver, 704) :
         \* draws that are not used are not enumerated
         /\ driver \in DOMAIN quali => qjitter = Canon(QualiJitter)
         /\ driver \in DOMAIN pace => pjitter = Canon(PaceJitter)
         /\ args' = [ driver |-> driver, team |-> team, event |-> venue,
                      weather_data |-> weather, clean_air_pace |-> pace,
                      qualifying_data |-> quali, qjitter |-> qjitter,
                      pjitter |-> pjitter ]
         /\ ret' = _build_driver_features(driver, team, venue, weather, pace,
                                          quali, qjitter, pjitter)
  /\ fn' = "_build_driver_features"
  /\ UNCHANGED << engineVars, trainVars, frameVars >>

CallGenerateExplanation ==
  /\ fn = "none"
  /\ \E w \in ExplanationWeights, hour \in ExplanationHours,
        importance \in ExplanationImportances :
       /\ args' = [ weights |-> w, race_datetime |-> hour,
                    feature_importance |-> importance ]
       /\ ret' = _generate_prediction_explanation(w, hour, importance)
  /\ fn' = "_generate_prediction_explanation"
  /\ UNCHANGED << engineVars, trainVars, frameVars >>

\* the except branch of the prediction route
CallFallbackResponse ==
  /\ fn = "none"
  /\ \E error \in RouteErrors :
       /\ args' = [ error |-> error ]
       /\ ret' = FallbackResponse(error).explanation
  /\ fn' = "fallback"
  /\ UNCHANGED << engineVars, trainVars, frameVars >>

\* weights of the batches: none, the documented values, chaos
BatchWeights ==
  { ZeroWeights, PredictionWeights([ k \in {} |-> 0 ]),
    [ ZeroWeights EXCEPT !.chaos_mode = TRUE ] }

\* qualifying data of the batches: none, or a time for every competitor
\* with the first of the roster the slowest
BatchQualifying ==
  { [ d \in {} |-> 0 ],
    [ d \in RosterSet |-> IF d = Roster[1] THEN 715 ELSE 704 ] }

\* predict_race from the loop over the roster to the return, on a trained
\* engine; _build_driver_features returns None for the competitors in
\* failed
CallPredictBatch ==
  /\ fn = "none"
  /\ \E failed \in SUBSET RosterSet, w \in BatchWeights,
        quali \in BatchQualifying, noise \in PerIndex(ChaosNoise),
        kind \in ArgsortKinds :
       LET built ==
             [ i \in 1..Len(Roster) |->
                 IF Roster[i] \in failed
                   THEN NoFeatures
                   ELSE BuiltRow(
                          _build_driver_features(
                            Roster[i], driver_to_team[Roster[i]], "Monaco",
                            DefaultWeather, [ d \in {} |-> 0 ], quali,
                            Canon(QualiJitter), Canon(PaceJitter))) ]
       IN  \* draws that are not used are not enumerated
           /\ ~w.chaos_mode =>
                \A i \in 1..Len(Roster) : noise[i] = Canon(ChaosNoise)
           /\ args' = [ roster |-> Roster, built |-> built, weights |-> w,
                        noise |-> noise ]
           /\ ret' = PredictBatch(Roster, built, Fitted(1), Fitted(1), w,
                                  noise, kind)
  /\ fn' = "predict_race"
  /\ UNCHANGED << engineVars, trainVars, frameVars >>

\* the features the pairs differ in, with a lower and a higher value each
PairFeatures ==
  { [ name |-> "qualifying_time", low |-> 702, high |-> 708 ],
    [ name |-> "clean_air_pace", low |-> 93500, high |-> 93700 ],
    [ name |-> "team_performance_score",
      low |-> team_performance_scores["Red Bull"],
      high |-> team_performance_scores["McLaren"] ] }

\* non-negative weights, chaos off
PairWeights ==
  { ZeroWeights, PredictionWeights([ k \in {} |-> 0 ]) } \cup
  { [ ZeroWeights EXCEPT ![name] = 100 ] : name \in CoefficientNames }

\* the adjustment _apply_weight_adjustments adds for one feature row: the
\* adjusted time of a raw time 0.0
Adjustment(row, w) ==
  _apply_weight_adjustments(<< Mk(0, 0) >>, << row >>, << "VER" >>, w,
                            << Mk(0, 0) >>)[1]

\* _apply_weight_adjustments on two competitors whose feature rows differ
\* in one feature only
CallWeightAdjustmentPair ==
  /\ fn = "none"
  /\ \E feature \in PairFeatures, w \in PairWeights, venue \in FeatureEvents :
       LET row ==
             _build_driver_features("VER", "Red Bull", venue, DefaultWeather,
                                    [ d \in {} |-> 0 ], [ d \in {} |-> 0 ],
                                    Canon(QualiJitter), Canon(PaceJitter))
           lower == [ row EXCEPT ![Col(feature.name)] = feature.low ]
           higher == [ row EXCEPT ![Col(feature.name)] = feature.high ]
       IN  /\ args' = [ feature |-> feature.name, weights |-> w,
                        lower |-> lower, higher |-> higher ]
           /\ ret' = [ lower |-> Adjustment(lower, w),
                       higher |-> Adjustment(higher, w) ]
  /\ fn' = "_apply_weight_adjustments"
  /\ UNCHANGED << engineVars, trainVars, frameVars >>

PureNext ==
  \/ CallRankProbabilities
  \/ CallBuildDriverFeatures
  \/ CallGenerateExplanation
  \/ CallFallbackResponse
  \/ CallPredictBatch
  \/ CallWeightAdjustmentPair
  \/ CallReturn

PureSpec == PureInit /\ [][PureNext]_vars

TypeOK ==
  /\ pc \in { "idle", "weather", "pace", "quali", "done", "responded" }
  /\ nextArt \in 2..(MaxArt + 1)
  /\ disk.state \in { "absent", "corrupt", "ok" }

(***************************************************************************)
(* Steps, as seen on the state.                                            *)
(***************************************************************************)
\* a step of predict_race (PredictStart, WeatherReturn, PaceReturn or
\* QualiReturn)
IsPredictStep == pc' # pc /\ pc' # "idle"

\* a complete run of train_model
IsTrainStep == train_result = NoResult /\ train_result' # NoResult

\* the engine holds the pair of objects _create_default_model made
Untrained == model = Unfitted(0) /\ imputer = Unfitted(0)

RosterIndex(d) == CHOOSE i \in 1..Len(Roster) : Roster[i] = d

\* the raw time of the i-th competitor in the call that has finished: what
\* the model it used predicts for the imputed row
RawTime(i) ==
  IF used.model = NoneObj
    THEN MockPrediction(features_df[i])
    ELSE ModelPredict(used.model, Transform(used.imputer, features_df[i]))

\* the predicted_time returned for competitor d
PredictedTimeOf(d) ==
  predictions[CHOOSE k \in 1..Len(predictions) : predictions[k].driver = d]
    .predicted_time

\* the call that has finished returned a prediction for every competitor
Predicted ==
  /\ pc = "done"
  /\ Len(predictions) = Len(Roster)
  /\ { predictions[k].driver : k \in 1..Len(predictions) } = RosterSet

\* both race-data providers returned a number for every competitor
CompleteProviders ==
  /\ pace_data.ok
  /\ quali_results.ok
  /\ \A d \in RosterSet :
       /\ d \in DOMAIN pace_data.data
       /\ pace_data.data[d] \notin { NAN, NONE }
       /\ d \in DOMAIN quali_results.data
       /\ Truthy(RowTime(quali_results.data[d]))
       /\ RowTime(quali_results.data[d]) # NAN

\* the list predict_race computes from the request, the provider results
\* and the artifact when every draw of the random source is 0
DrawFreePredictions ==
  LET qualifying_data ==
        _get_qualifying_predictions(quali_results, [ d \in RosterSet |-> 0 ])
      rows ==
        [ i \in 1..Len(Roster) |->
            _build_driver_features(Roster[i], driver_to_team[Roster[i]], event,
                                   weather_data,
                                   _get_clean_air_pace_data(pace_data),
                                   qualifying_data, 0, 0) ]
      raw == [ i \in 1..Len(Roster) |->
                 ModelPredict(used.model, Transform(used.imputer, rows[i])) ]
      adjusted ==
        _apply_weight_adjustments(raw, rows, Roster, weights,
                                  [ i \in 1..Len(Roster) |-> Mk(0, 0) ])
  IN  SortedByTime(_times_to_predictions(Roster, adjusted,
                                         argsort(adjusted, argsort_kind)))

\* the values the estimates can take for competitor d
QualiEstimates(d) ==
  { _estimate_qualifying_time(d, driver_to_team[d], j) : j \in QualiJitter }

PaceEstimates(d) ==
  { _estimate_clean_air_pace(d, driver_to_team[d], j) : j \in PaceJitter }

\* the qualifying provider has a time for competitor d
HasQualiTime(d) ==
  /\ quali_results.ok
  /\ d \in DOMAIN quali_results.data
  /\ Truthy(RowTime(quali_results.data[d]))

\* a value of the weights dict that is not a number (JSON null) where a
\* coefficient is expected
InvalidWeights(w) == \E name \in CoefficientNames : w[name] = NONE

AllZero(w) ==
  /\ w.track_suitability = 0
  /\ w.clean_air_pace = 0
  /\ w.qualifying_importance = 0
  /\ w.team_form = 0
  /\ w.weather_impact = 0
  /\ ~w.chaos_mode

(***************************************************************************)
(* Properties.                                                             *)
(***************************************************************************)

\* C1: when the engine holds the objects made at start-up without a usable
\* artifact on disk, a finished predict_race call has returned one
\* prediction for each competitor of the roster.
C1_UntrainedPredictsWholeRoster ==
  (pc = "done" /\ Untrained) =>
    /\ Len(predictions) = Len(Roster)
    /\ { predictions[i].driver : i \in 1..Len(predictions) } = RosterSet

\* C2: when the engine holds no trained model and the request has all five
\* weights 0 and chaos_mode false, the predicted_time returned for each
\* competitor is (qualifying_time + 20) * (2 - team_performance_score) *
\* (1 + rain_probability * 0.1) of its feature row.
C2_UntrainedTimeIsHeuristic ==
  (pc = "done" /\ ~model.fitted /\ AllZero(weights)) =>
    /\ Len(features_df) = Len(Roster)
    /\ \A i \in 1..Len(Roster) :
         \E k \in 1..Len(predictions) :
           /\ predictions[k].driver = Roster[i]
           /\ predictions[k].predicted_time = MockPrediction(features_df[i])

\* C3: once the engine holds a fitted model and a fitted imputer, no
\* predict_race step and no train_model call, failed ones included, leaves
\* it without them.
C3_TrainedNeverRegresses ==
  [][ (Usable(model, imputer) /\ (IsPredictStep \/ IsTrainStep))
        => Usable(model', imputer') ]_vars

\* C4: a train_model call with fewer than 10 examples returns a
\* data-insufficiency error and leaves the model, the imputer and the file
\* on disk as they were.
C4_TooFewExamplesChangesNothing ==
  [][ (IsTrainStep /\ Len(training_data') < 10)
        => /\ train_result'.status = "error"
           /\ train_result'.error \in
                { "No training data", "Insufficient training data" }
           /\ model' = model
           /\ imputer' = imputer
           /\ disk' = disk ]_vars

C4_Witness ==
  /\ train_result.error = "Insufficient training data"
  /\ Len(training_data) = 9
  /\ Usable(model, imputer)
  /\ disk.state = "ok"

WellFormed(data) ==
  \A i \in 1..Len(data) :
    /\ data[i].nfeatures = 6
    /\ data[i].features = "num"
    /\ data[i].actual_time = "num"

\* C5: the threshold is exactly 10: a train_model call with 9 examples
\* returns the insufficient-data error, and one with 10 well-formed
\* examples succeeds and returns a feature-importance map with one entry
\* for each of the 6 feature names.
C5_ThresholdIsTen ==
  /\ (train_result # NoResult /\ Len(training_data) = 9)
       => /\ train_result.status = "error"
          /\ train_result.error = "Insufficient training data"
  /\ (train_result # NoResult /\ Len(training_data) = 10
        /\ WellFormed(training_data))
       => /\ train_result.status = "success"
          /\ Cardinality(DOMAIN train_result.feature_importance) = 6
          /\ DOMAIN train_result.feature_importance =
               { feature_names[i] : i \in 1..Len(feature_names) }

C5_Witness ==
  /\ train_result.status = "success"
  /\ Len(training_data) = 10
  /\ train_result.training_samples = 10

\* C6: a predict_race call that started on a trained engine calls
\* transform and predict on an imputer and a model of one and the same
\* artifact, both fitted, whatever train_model calls run while it is
\* suspended.
C6_PredictUsesOneArtifact ==
  (pc = "done" /\ startUsable) =>
    /\ used.imputer.fitted
    /\ used.model.fitted
    /\ used.imputer.art = used.model.art

\* C7: no step of predict_race changes the model or the imputer the engine
\* holds.
C7_PredictKeepsArtifact ==
  [][ IsPredictStep => (model' = model /\ imputer' = imputer) ]_vars

C7_Witness ==
  /\ pc = "done"
  /\ Len(predictions) = Len(Roster)
  /\ used.imputer = imputer
  /\ used.model = model

\* C8: an artifact on disk whose recorded feature order differs from the
\* engine's feature_names is not installed by the loader.
C8_OtherLayoutRejected ==
  (disk.state = "ok" /\ disk.feature_names # feature_names) =>
    (model # disk.model /\ imputer # disk.imputer)

\* C9: the list predict_race returns is ascending in predicted_time: each
\* result's predicted_time is less than or equal to the next one's.
C9_SortedAscending ==
  pc = "done" =>
    \A i \in 1..(Len(predictions) - 1) :
      FLe(predictions[i].predicted_time, predictions[i + 1].predicted_time)

\* C10: two competitors with equal adjusted times are returned in roster
\* order: the one that comes first in the roster is ranked ahead.
C10_TiesInRosterOrder ==
  pc = "done" =>
    \A i, j \in 1..Len(predictions) :
      (i < j /\ FLe(predictions[i].predicted_time, predictions[j].predicted_time)
             /\ FLe(predictions[j].predicted_time, predictions[i].predicted_time))
        => RosterIndex(predictions[i].driver) < RosterIndex(predictions[j].driver)

\* C11: the win probability of rank i (from 0) is max(0.01, 0.95 - 0.05*i):
\* it never rises from one rank to the next, is never below 0.01 and never
\* above 1, for a ranking of any length.
C11_WinProbabilityDecreasesToFloor ==
  fn = "_times_to_predictions" =>
    \A k \in 1..Len(ret) :
      /\ ret[k].win_probability =
           (IF 95 - 5 * (k - 1) > 1 THEN 95 - 5 * (k - 1) ELSE 1)
      /\ ret[k].win_probability >= 1
      /\ ret[k].win_probability > 0
      /\ ret[k].win_probability <= 100
      /\ k > 1 => ret[k].win_probability <= ret[k - 1].win_probability

\* a ranking longer than the 19 ranks at which the floor is reached
C11_Witness ==
  /\ fn = "_times_to_predictions"
  /\ Len(ret) > 20
  /\ ret[1].win_probability = 95
  /\ ret[Len(ret)].win_probability = 1

\* C12: the podium probability never rises from one rank to the next
\* within ranks 0..2 and within ranks 3 and above, is never below 0.05 from
\* rank 3 on, and is above 0 and at most 1 at every rank.
C12_PodiumProbabilityDecreasesToFloor ==
  fn = "_times_to_predictions" =>
    \A k \in 1..Len(ret) :
      /\ ret[k].top3_probability > 0
      /\ ret[k].top3_probability <= 100
      /\ (k - 1 >= 3) => ret[k].top3_probability >= 5
      /\ (k > 1 /\ k - 1 < 3) =>
           ret[k].top3_probability <= ret[k - 1].top3_probability
      /\ (k - 1 > 3) =>
           ret[k].top3_probability <= ret[k - 1].top3_probability

\* a ranking longer than the 12 ranks at which the floor is reached
C12_Witness ==
  /\ fn = "_times_to_predictions"
  /\ Len(ret) > 13
  /\ ret[3].top3_probability = 60
  /\ ret[4].top3_probability = 50
  /\ ret[Len(ret)].top3_probability = 5

\* C13: with all five weights 0 and chaos_mode false the overlay changes
\* nothing: the predicted_time of every competitor is exactly its raw time.
C13_ZeroWeightsIdentity ==
  (Predicted /\ AllZero(weights)) =>
    \A i \in 1..Len(Roster) : PredictedTimeOf(Roster[i]) = RawTime(i)

\* 0.1 * weight * z of one column of a feature row, z = (value - 0) / 1
OverlayTerm(weight, row, name) ==
  IF row[Col(name)] = NAN
    THEN NaNTime
    ELSE Scaled(weight * row[Col(name)], 1000 * FeatureUnit[Col(name)])

\* C14: with chaos_mode false the predicted_time of a competitor is its raw
\* time plus 0.1 * (track_suitability * average_position_change +
\* clean_air_pace * clean_air_pace + qualifying_importance * qualifying_time
\* + team_form * team_performance_score + weather_impact * rain_probability)
\* of its own feature row, the z-score of a value being the value itself
\* (mean 0, std 1); no other competitor's row enters.
C14_AdjustmentIsWeightedSum ==
  (Predicted /\ ~weights.chaos_mode) =>
    \A i \in 1..Len(Roster) :
      PredictedTimeOf(Roster[i]) =
        FAdd(RawTime(i),
             FAdd(FAdd(FAdd(FAdd(
               OverlayTerm(weights.track_suitability, features_df[i],
                        "average_position_change"),
               OverlayTerm(weights.clean_air_pace, features_df[i],
                        "clean_air_pace")),
               OverlayTerm(weights.qualifying_importance, features_df[i],
                        "qualifying_time")),
               OverlayTerm(weights.team_form, features_df[i],
                        "team_performance_score")),
               OverlayTerm(weights.weather_impact, features_df[i],
                        "rain_probability")))

\* a call with the default weights whose overlay moved a numeric raw time
C14_Witness ==
  /\ Predicted
  /\ ~weights.chaos_mode
  /\ weights.clean_air_pace = 90
  /\ \E i \in 1..Len(Roster) :
       /\ ~PredictedTimeOf(Roster[i]).nan
       /\ PredictedTimeOf(Roster[i]) # RawTime(i)

\* C15: with chaos_mode false or omitted, and both providers returning a
\* value for every competitor, the list predict_race returns is determined
\* by the request, the provider results and the artifact: it is the list
\* computed with every random draw replaced by 0, so two such calls return
\* the same competitors in the same order with the same times.
C15_NoChaosIsDeterministic ==
  (Predicted /\ ~weights.chaos_mode /\ CompleteProviders) =>
    predictions = DrawFreePredictions

\* a call whose request left chaos_mode out
C15_Witness ==
  /\ Predicted
  /\ weights = PredictionWeights([ k \in {} |-> 0 ])
  /\ CompleteProviders
  /\ predictions = DrawFreePredictions

C17_FeatureVectorComplete ==
  fn = "_build_driver_features" =>
    /\ Len(ret) = 6
    /\ Len(ret) = Len(feature_names)
    /\ \A i \in 1..Len(ret) : ret[i] \in Int /\ ret[i] \notin { NAN, NONE }
    /\ ret[Col("rain_probability")] = args.weather_data.precipitation_prob
    /\ ret[Col("temperature")] = args.weather_data.temperature_c
    /\ ret[Col("team_performance_score")] =
         (IF args.team \in DOMAIN team_performance_scores
            THEN team_performance_scores[args.team] ELSE 279)
    /\ ret[Col("average_position_change")] =
         (IF args.event \in DOMAIN average_position_change
               /\ args.driver \in DOMAIN average_position_change[args.event]
            THEN average_position_change[args.event][args.driver] ELSE 0)
    /\ ret[Col("qualifying_time")] =
         (IF args.driver \in DOMAIN args.qualifying_data
            THEN args.qualifying_data[args.driver]
            ELSE _estimate_qualifying_time(args.driver, args.team, args.qjitter))
    /\ ret[Col("clean_air_pace")] =
         (IF args.driver \in DOMAIN args.clean_air_pace
            THEN args.clean_air_pace[args.driver]
            ELSE _estimate_clean_air_pace(args.driver, args.team, args.pjitter))

\* every input absent: unknown team, venue without history, no provider
\* value
C17_Witness ==
  /\ fn = "_build_driver_features"
  /\ args.team \notin DOMAIN team_performance_scores
  /\ args.event \notin DOMAIN average_position_change
  /\ args.driver \notin DOMAIN args.qualifying_data
  /\ args.driver \notin DOMAIN args.clean_air_pace
  /\ ret[Col("team_performance_score")] = 279
  /\ ret[Col("average_position_change")] = 0

\* C18: on an engine that holds a fitted artifact predict_race, called
\* with numeric weights, returns a
\* prediction for every competitor whatever the race-data providers did
\* (raised, returned nothing, or returned values for some competitors
\* only), and each feature row holds the provider's value where the
\* provider has one for that competitor and an estimate where it has none:
\* for the pace the value of the fixed table when the provider gave
\* nothing at all, else the team estimate for the competitors it left out;
\* for the qualifying time the team and driver estimate.
C18_ProviderGapsAbsorbedPerCompetitor ==
  (pc = "done" /\ used.imputer.fitted /\ used.model.fitted
     /\ ~InvalidWeights(weights)) =>
    /\ Predicted
    /\ Len(features_df) = Len(Roster)
    /\ \A i \in 1..Len(Roster) :
         LET d == Roster[i]
             pace == features_df[i][Col("clean_air_pace")]
             quali == features_df[i][Col("qualifying_time")]
         IN  /\ IF pace_data.ok /\ d \in DOMAIN pace_data.data
                  THEN pace = pace_data.data[d]
                  ELSE IF pace_data.ok /\ DOMAIN pace_data.data # {}
                    THEN pace \in PaceEstimates(d)
                    ELSE pace = MockPace[d]
             /\ IF HasQualiTime(d)
                  THEN quali = RowTime(quali_results.data[d])
                  ELSE quali \in QualiEstimates(d)

\* the pace provider covered the first competitor only and the qualifying
\* provider had no time for the first competitor
C18_Witness ==
  /\ Predicted
  /\ pace_data.ok
  /\ DOMAIN pace_data.data = { Roster[1] }
  /\ quali_results.ok
  /\ ~HasQualiTime(Roster[1])
  /\ HasQualiTime(Roster[Len(Roster)])
  /\ features_df[Len(Roster)][Col("clean_air_pace")]
       \in PaceEstimates(Roster[Len(Roster)])
  /\ features_df[1][Col("qualifying_time")] \in QualiEstimates(Roster[1])

\* C19: when no model has been trained the importance lookup returns an
\* empty map and does not raise: the feature-importance route answers 200
\* with an empty map, and the prediction route builds its normal response
\* instead of the one of its except branch.
C19_ImportanceLookupNeverRaises ==
  /\ (fn = "get_feature_importance" /\ ~model.fitted) =>
       /\ ret.status = 200
       /\ \A k \in DOMAIN ret.feature_importance : ret.feature_importance[k] = 0
  /\ (pc = "responded" /\ ~model.fitted) => response.kind = "normal"

\* some condition of the explanation is triggered by its arguments
ExplanationTriggered(a) ==
  \/ a.weights.track_suitability > 80
  \/ a.weights.clean_air_pace > 80
  \/ a.weights.qualifying_importance > 80
  \/ a.weights.weather_impact > 60
  \/ a.weights.chaos_mode
  \/ DOMAIN a.feature_importance # {}
  \/ (a.race_datetime # NoDatetime
        /\ (a.race_datetime < 10 \/ a.race_datetime > 18))

\* C20: the explanation of a prediction response always has at least one
\* sentence, in the normal response for every combination of weights,
\* chaos_mode, importance map and start time and in the response of the
\* except branch, and the normal one is the generic sentence exactly when
\* no weight threshold, chaos flag, importance entry or time-of-day
\* condition is triggered.
C20_ExplanationNeverEmpty ==
  /\ fn = "_generate_prediction_explanation" =>
       /\ Len(ret) >= 1
       /\ (ret = << Sentence("generic", "") >>) <=> ~ExplanationTriggered(args)
       /\ (\E k \in 1..Len(ret) : ret[k].kind = "generic")
            <=> ~ExplanationTriggered(args)
  /\ fn = "fallback" => Len(ret) >= 1

\* nothing is triggered: weights at their thresholds, no importance map, a
\* start in the afternoon
C20_Witness ==
  /\ fn = "_generate_prediction_explanation"
  /\ ~ExplanationTriggered(args)
  /\ args.race_datetime = 14
  /\ args.weights.track_suitability = 80
  /\ ret = << Sentence("generic", "") >>

\* C21: a prediction request during which predict_race met an error is
\* answered with a non-empty prediction list and a model_confidence below
\* the 0.85 of a successful trained prediction; never with an empty list
\* at full trained confidence.
C21_ErrorYieldsFallback ==
  (pc = "responded" /\ predictions = << >>) =>
    /\ Len(response.predictions) > 0
    /\ response.model_confidence < 85

\* C22: a request whose weights hold a value of an invalid type is
\* rejected with an input-validation error: it is answered neither with an
\* empty result, nor with the fallback list, nor with a normal prediction.
C22_InvalidWeightsRejected ==
  (pc = "responded" /\ InvalidWeights(weights)) =>
    response.kind \notin { "normal", "fallback" }

\* C23: on an engine without a trained model, with no provider data,
\* default weather, all weights 0 and chaos off, VER and NOR both get a
\* time, and VER is ranked ahead of NOR exactly when
\* qualifying_time_VER * (2 - team_score_RedBull) <
\* qualifying_time_NOR * (2 - team_score_McLaren).
C23_ScenarioRanking ==
  (pc = "done" /\ Untrained /\ ~pace_data.ok /\ ~quali_results.ok
     /\ weather_data = DefaultWeather /\ AllZero(weights)) =>
    /\ Predicted
    /\ LET q(d) == features_df[RosterIndex(d)][Col("qualifying_time")]
           ts(t) == team_performance_scores[t]
           rank(d) == CHOOSE k \in 1..Len(predictions) :
                        predictions[k].driver = d
       IN  (rank("VER") < rank("NOR")) <=>
             (q("VER") * (2 * 558 - ts("Red Bull")) <
                q("NOR") * (2 * 558 - ts("McLaren")))

\* the documented values of the weights, in hundredths
DefaultRequestWeights ==
  [ track_suitability |-> 85, clean_air_pace |-> 90,
    qualifying_importance |-> 85, team_form |-> 68, weather_impact |-> 45,
    chaos_mode |-> FALSE ]

\* C24: the weights of a predict_race call are those of its own request,
\* with 0.85, 0.90, 0.85, 0.68, 0.45 and chaos off for the keys the request
\* omits, whatever calls came before; no step of the call changes the
\* weights object or the request, and none leaves anything in the engine.
C24_WeightsPerRequest ==
  /\ [](pc # "idle" =>
          \A k \in DOMAIN DefaultRequestWeights :
            weights[k] = IF k \in DOMAIN request_weights
                           THEN request_weights[k]
                           ELSE DefaultRequestWeights[k])
  /\ [][ (pc # "idle" /\ pc' # "idle") =>
            (weights' = weights /\ request_weights' = request_weights) ]_vars
  /\ [][ IsPredictStep => engineVars' = engineVars ]_vars

\* a call whose request omits every key is in flight with the documented
\* values
C24_Witness ==
  /\ pc = "quali"
  /\ DOMAIN request_weights = {}
  /\ weights = DefaultRequestWeights

\* C25: a train_model call that returned status "success" has written the
\* new artifact: the file holds the model and the imputer the engine now
\* holds, so that a restart loads them.
C25_SuccessMeansPersisted ==
  train_result.status = "success" =>
    /\ disk.state = "ok"
    /\ disk.model = model
    /\ disk.imputer = imputer
    /\ load_model(disk) = [ model |-> model, imputer |-> imputer ]

\* C26: every predicted_time that predict_race returns is a number, also
\* when a provider supplied NaN for a competitor's qualifying time or
\* pace: the imputer's value is what the model and the overlay read.
C26_NoNaNInOutput ==
  pc = "done" =>
    \A k \in 1..Len(predictions) : ~predictions[k].predicted_time.nan

\* C27: when _build_driver_features returns None for some competitors,
\* exactly those are left out and every other competitor of the roster is
\* predicted once; after each step of predict_race the i-th driver code,
\* the i-th feature row, the i-th raw time and the i-th adjusted time
\* belong to the same competitor.
C27_SkipKeepsAlignment ==
  fn = "predict_race" =>
    LET built(d) == args.built[RosterIndex(d)]
        kept == { d \in RosterSet : built(d).ok }
        n == Len(ret.drivers)
    IN  /\ { ret.drivers[i] : i \in 1..n } = kept
        /\ \A i, j \in 1..n : ret.drivers[i] = ret.drivers[j] => i = j
        /\ Len(ret.features_df) = n
        /\ Len(ret.predicted_times) = n
        /\ Len(ret.adjusted_times) = n
        /\ { ret.predictions[k].driver : k \in 1..Len(ret.predictions) } = kept
        /\ \A i \in 1..n :
             LET d == ret.drivers[i]
                 row == built(d).features
                 raw == ModelPredict(Fitted(1), Transform(Fitted(1), row))
             IN  /\ ret.features_df[i] = row
                 /\ ret.predicted_times[i] = raw
                 /\ ret.adjusted_times[i] =
                      _apply_weight_adjustments(<< raw >>, << row >>, << d >>,
                                                args.weights,
                                                << args.noise[i] >>)[1]

\* feature building failed for one competitor and another was predicted
C27_Witness ==
  /\ fn = "predict_race"
  /\ \E i \in 1..Len(args.built) : ~args.built[i].ok
  /\ Len(ret.predictions) > 0

\* C28: a non-empty result of predict_race holds each competitor for which
\* a feature vector was built exactly once, with its team of the roster
\* table and its own adjusted time, and holds no other competitor.
C28_ResultIsPermutation ==
  (fn = "predict_race" /\ ret.predictions # << >>) =>
    LET n == Len(ret.drivers)
        entries(d) == { k \in 1..Len(ret.predictions) :
                          ret.predictions[k].driver = d }
    IN  /\ Len(ret.predictions) = n
        /\ \A k \in 1..Len(ret.predictions) :
             \E i \in 1..n : ret.predictions[k].driver = ret.drivers[i]
        /\ \A i \in 1..n :
             /\ Cardinality(entries(ret.drivers[i])) = 1
             /\ \A k \in entries(ret.drivers[i]) :
                  /\ ret.predictions[k].team = driver_to_team[ret.drivers[i]]
                  /\ ret.predictions[k].predicted_time = ret.adjusted_times[i]

\* the whole roster was predicted and the order of the result is not the
\* order of the roster
C28_Witness ==
  /\ fn = "predict_race"
  /\ Len(ret.predictions) = Len(Roster)
  /\ ret.predictions[1].driver # Roster[1]

\* C29: at every rank the win probability is not above the podium
\* probability of the same rank.
C29_WinNotAbovePodium ==
  fn = "_times_to_predictions" =>
    \A k \in 1..Len(ret) : ret[k].win_probability <= ret[k].top3_probability

\* C30: with non-negative weights and chaos off, of two competitors whose
\* feature rows differ in one feature only, the one with the lower
\* qualifying_time, the lower clean_air_pace or the higher
\* team_performance_score does not get the larger adjustment.
C30_AdjustmentFavoursBetter ==
  fn = "_apply_weight_adjustments" =>
    IF args.feature = "team_performance_score"
      THEN FLe(ret.higher, ret.lower)
      ELSE FLe(ret.lower, ret.higher)

=============================================================================
